---- MODULE Spec2Model ----
(***************************************************************************)
(* Tabber: indentation analysis and space-to-tab conversion.               *)
(*                                                                         *)
(* A line is a sequence of characters, each a string, and a document a    *)
(* sequence of at least one line (vscode.TextDocument: lineCount and       *)
(* lineAt(i).text; an empty document has one empty line).  Line numbers    *)
(* and character offsets are 0-based as in the source; sequences are       *)
(* 1-based, so line i of the source is document[i + 1].                    *)
(***************************************************************************)
EXTENDS Integers, Sequences, FiniteSets, TLC

VARIABLES
    document,           \* the open text document: a sequence of lines
    tabSize,            \* SpaceToTabConverter.tabSize
    options,            \* SpaceToTabConverter.options
    ret,                \* the most recent call and the value it returned
    applied,            \* the calls whose edits were applied to the document, in order
    preservedRegions,   \* ContentPreserver.preservedRegions
    workspace,          \* the text documents of the workspace, by file path
    batch,              \* the fixAllFiles call in progress, if any
    settings,           \* the configuration vscode.workspace.getConfiguration reads
    config              \* the values ConfigurationService has cached

vars ==
    <<document, tabSize, options, ret, applied, preservedRegions, workspace, batch,
      settings, config>>

(***************************************************************************)
(* Bounds of the model.                                                    *)
(***************************************************************************)
MaxIndent == 5      \* longest leading whitespace of a one-line document
MaxTabSize == 4     \* largest tab size
MaxLines == 2       \* most lines of a document of short lines
MaxText == 4        \* longest text of a document of literals
MaxApply == 2       \* most edit applications in one behaviour
MaxFiles == 2       \* most file paths handed to fixAllFiles
MaxConfigured == 2  \* most settings of the extension configured at a time

(***************************************************************************)
(* Characters.                                                             *)
(***************************************************************************)
SP == " "
TAB == "\t"
NL == "\n"

\* The characters /^[ \t]*/ matches.
IsSpaceOrTab(c) == c = SP \/ c = TAB

(***************************************************************************)
(* IndentationUtils                                                        *)
(***************************************************************************)
\* char.repeat(count)
repeatCharacter(char, count) == [i \in 1..count |-> char]

\* Length of the longest prefix of line matching [ \t]*.
LeadingLength(line) ==
    IF \A i \in 1..Len(line) : IsSpaceOrTab(line[i])
    THEN Len(line)
    ELSE (CHOOSE i \in 1..Len(line) :
              /\ ~IsSpaceOrTab(line[i])
              /\ \A j \in 1..(i - 1) : IsSpaceOrTab(line[j])) - 1

\* line.match(/^[ \t]*/)[0]
extractLeadingWhitespace(line) == SubSeq(line, 1, LeadingLength(line))

\* (text.match(/ /g) || []).length
countSpaces(text) == Cardinality({i \in 1..Len(text) : text[i] = SP})

\* text.includes(c)
Includes(text, c) == \E i \in 1..Len(text) : text[i] = c

\* Variant: the spaces that remain in the new line are not subtracted.
calculateSpacesReplacedOriginalOnly(originalLine, newLine) ==
    countSpaces(extractLeadingWhitespace(originalLine))

\* Variant: the difference is taken the other way round.
calculateSpacesReplacedReversed(originalLine, newLine) ==
    countSpaces(extractLeadingWhitespace(newLine))
        - countSpaces(extractLeadingWhitespace(originalLine))

calculateSpacesReplaced(originalLine, newLine) ==
    countSpaces(extractLeadingWhitespace(originalLine))
        - countSpaces(extractLeadingWhitespace(newLine))

\* vscode TextLine.isEmptyOrWhitespace: no non-whitespace character.
isEmptyOrWhitespace(line) == \A i \in 1..Len(line) : IsSpaceOrTab(line[i])

(***************************************************************************)
(* SpaceToTabConverter                                                     *)
(***************************************************************************)
\* Variant: a tab expands to one space too many.
RECURSIVE convertTabsToSpacesOneMore(_, _)
convertTabsToSpacesOneMore(text, size) ==
    IF text = <<>> THEN <<>>
    ELSE (IF Head(text) = TAB THEN repeatCharacter(SP, size + 1) ELSE <<Head(text)>>)
             \o convertTabsToSpacesOneMore(Tail(text), size)

\* indentation.replace(/\t/g, ' '.repeat(tabSize)), built left to right.
RECURSIVE convertTabsToSpaces(_, _)
convertTabsToSpaces(text, size) ==
    IF text = <<>> THEN <<>>
    ELSE (IF Head(text) = TAB THEN repeatCharacter(SP, size) ELSE <<Head(text)>>)
             \o convertTabsToSpaces(Tail(text), size)

\* The column reached after text when a tab advances to the next tab stop.
RECURSIVE ColumnAfter(_, _, _)
ColumnAfter(text, size, col) ==
    IF text = <<>> THEN col
    ELSE IF Head(text) = TAB
         THEN ColumnAfter(Tail(text), size, ((col \div size) + 1) * size)
    ELSE ColumnAfter(Tail(text), size, col + 1)

\* Variant: tabs are expanded to tab stops, not to size spaces each.
convertMixedIndentationTabStops(indentation, size) ==
    LET spacesCount == ColumnAfter(indentation, size, 0)
        tabsCount == spacesCount \div size
        remainingSpaces == spacesCount % size
    IN  repeatCharacter(TAB, tabsCount)
            \o (IF remainingSpaces > 0 THEN repeatCharacter(SP, remainingSpaces) ELSE <<>>)

\* Variant: the tabs are not expanded before the width is taken.
convertMixedIndentationUnexpanded(indentation, size) ==
    LET spacesCount == Len(indentation)
        tabsCount == spacesCount \div size
        remainingSpaces == spacesCount % size
    IN  repeatCharacter(TAB, tabsCount)
            \o (IF remainingSpaces > 0 THEN repeatCharacter(SP, remainingSpaces) ELSE <<>>)

\* Variant: the spaces left over after the last full tab are not written.
convertMixedIndentationNoRemainder(indentation, size) ==
    LET allSpacesIndentation == convertTabsToSpaces(indentation, size)
        tabsCount == Len(allSpacesIndentation) \div size
    IN  repeatCharacter(TAB, tabsCount)

convertMixedIndentation(indentation, size) ==
    LET allSpacesIndentation == convertTabsToSpaces(indentation, size)
        spacesCount == Len(allSpacesIndentation)
        tabsCount == spacesCount \div size
        remainingSpaces == spacesCount % size
    IN  repeatCharacter(TAB, tabsCount)
            \o (IF remainingSpaces > 0 THEN repeatCharacter(SP, remainingSpaces) ELSE <<>>)

\* Variant: the spaces left over after the last full tab are dropped.
convertLeadingSpacesRounded(line, size) ==
    LET leadingWhitespace == extractLeadingWhitespace(line)
        contentAfterWhitespace == SubSeq(line, Len(leadingWhitespace) + 1, Len(line))
        tabsCount == Len(leadingWhitespace) \div size
    IN  IF Len(leadingWhitespace) = 0 THEN line
        ELSE IF Includes(leadingWhitespace, TAB)
             THEN convertMixedIndentation(leadingWhitespace, size) \o contentAfterWhitespace
        ELSE IF ~Includes(leadingWhitespace, SP) THEN line
        ELSE repeatCharacter(TAB, tabsCount) \o contentAfterWhitespace

\* Variant: the spaces left over are written before the tabs.
convertLeadingSpacesSpacesFirst(line, size) ==
    LET leadingWhitespace == extractLeadingWhitespace(line)
        contentAfterWhitespace == SubSeq(line, Len(leadingWhitespace) + 1, Len(line))
        tabsCount == Len(leadingWhitespace) \div size
        remainingSpaces == Len(leadingWhitespace) % size
    IN  IF Len(leadingWhitespace) = 0 THEN line
        ELSE IF Includes(leadingWhitespace, TAB)
             THEN convertMixedIndentation(leadingWhitespace, size) \o contentAfterWhitespace
        ELSE IF ~Includes(leadingWhitespace, SP) THEN line
        ELSE repeatCharacter(SP, remainingSpaces) \o repeatCharacter(TAB, tabsCount)
                 \o contentAfterWhitespace

convertLeadingSpaces(line, size) ==
    LET leadingWhitespace == extractLeadingWhitespace(line)
        contentAfterWhitespace == SubSeq(line, Len(leadingWhitespace) + 1, Len(line))
        spacesCount == Len(leadingWhitespace)
        tabsCount == spacesCount \div size
        remainingSpaces == spacesCount % size
        newIndentation ==
            repeatCharacter(TAB, tabsCount)
                \o (IF remainingSpaces > 0 THEN repeatCharacter(SP, remainingSpaces) ELSE <<>>)
    IN  IF Len(leadingWhitespace) = 0 THEN line
        ELSE IF Includes(leadingWhitespace, TAB)
             THEN convertMixedIndentation(leadingWhitespace, size) \o contentAfterWhitespace
        ELSE IF ~Includes(leadingWhitespace, SP) THEN line
        ELSE newIndentation \o contentAfterWhitespace

\* The loop of convertAllSpaces from character i (1-based) on, with the
\* local variables result and spaceCount.
RECURSIVE convertAllSpacesFrom(_, _, _, _, _)
convertAllSpacesFrom(line, size, i, result, spaceCount) ==
    IF i > Len(line)
    THEN (IF spaceCount > 0 THEN result \o repeatCharacter(SP, spaceCount) ELSE result)
    ELSE IF line[i] = SP
         THEN (IF spaceCount + 1 = size
               THEN convertAllSpacesFrom(line, size, i + 1, Append(result, TAB), 0)
               ELSE convertAllSpacesFrom(line, size, i + 1, result, spaceCount + 1))
    ELSE convertAllSpacesFrom(line, size, i + 1,
             Append((IF spaceCount > 0 THEN result \o repeatCharacter(SP, spaceCount)
                     ELSE result), line[i]),
             0)

convertAllSpaces(line, size) == convertAllSpacesFrom(line, size, 1, <<>>, 0)

\* Variant: the whole line is converted whatever the option says.
convertLineEverywhere(line, size, opts) == convertAllSpaces(line, size)

convertLine(line, size, opts) ==
    IF opts.onlyLeadingSpaces
    THEN convertLeadingSpaces(line, size)
    ELSE convertAllSpaces(line, size)

\* The for loop of convert from line i (0-based) on; acc is the record of
\* the locals edits, linesChanged and spacesReplaced.
\* Variant: an edit is pushed for every line that is not skipped.
RECURSIVE convertFromEveryLine(_, _, _, _, _)
convertFromEveryLine(doc, size, opts, i, acc) ==
    IF i >= Len(doc) THEN acc
    ELSE LET lineText == doc[i + 1]
             convertedLine == convertLine(lineText, size, opts)
         IN  IF isEmptyOrWhitespace(lineText) /\ ~opts.preserveIndentationInEmptyLines
             THEN convertFromEveryLine(doc, size, opts, i + 1, acc)
             ELSE convertFromEveryLine(doc, size, opts, i + 1,
                      [edits |-> Append(acc.edits,
                                        [line |-> i, newText |-> convertedLine]),
                       linesChanged |-> acc.linesChanged + 1,
                       spacesReplaced |-> acc.spacesReplaced
                           + calculateSpacesReplaced(lineText, convertedLine)])

\* The for loop of convert from line i (0-based) on.
RECURSIVE convertFrom(_, _, _, _, _)
convertFrom(doc, size, opts, i, acc) ==
    IF i >= Len(doc) THEN acc
    ELSE LET lineText == doc[i + 1]
             convertedLine == convertLine(lineText, size, opts)
         IN  IF isEmptyOrWhitespace(lineText) /\ ~opts.preserveIndentationInEmptyLines
             THEN convertFrom(doc, size, opts, i + 1, acc)
             ELSE IF convertedLine # lineText
                  THEN convertFrom(doc, size, opts, i + 1,
                           [edits |-> Append(acc.edits,
                                             [line |-> i, newText |-> convertedLine]),
                            linesChanged |-> acc.linesChanged + 1,
                            spacesReplaced |-> acc.spacesReplaced
                                + calculateSpacesReplaced(lineText, convertedLine)])
             ELSE convertFrom(doc, size, opts, i + 1, acc)

convert(doc, size, opts) ==
    convertFrom(doc, size, opts, 0,
                [edits |-> <<>>, linesChanged |-> 0, spacesReplaced |-> 0])

\* vscode.workspace.applyEdit with one replace of the whole line per edit.
applyEdit(doc, edits) ==
    [i \in 1..Len(doc) |->
        IF \E k \in 1..Len(edits) : edits[k].line = i - 1
        THEN edits[CHOOSE k \in 1..Len(edits) : edits[k].line = i - 1].newText
        ELSE doc[i]]

(***************************************************************************)
(* IndentationAnalyzer.  A Map<number, number> is the sequence of its      *)
(* entries in insertion order, which is the order entries() iterates in.   *)
(***************************************************************************)
MapHas(map, key) == \E k \in 1..Len(map) : map[k].value = key

\* Variant: the count already stored is not read.
MapGetOrZeroForgetful(map, key) == 0

\* map.get(key) || 0
MapGetOrZero(map, key) ==
    IF MapHas(map, key)
    THEN map[CHOOSE k \in 1..Len(map) : map[k].value = key].frequency
    ELSE 0

\* map.set(key, frequency): an existing key keeps its place.
MapSet(map, key, frequency) ==
    IF MapHas(map, key)
    THEN [k \in 1..Len(map) |->
             IF map[k].value = key THEN [value |-> key, frequency |-> frequency]
             ELSE map[k]]
    ELSE Append(map, [value |-> key, frequency |-> frequency])

Null == "null"

\* Variant: a later entry of the same frequency replaces the earlier one.
RECURSIVE findMostFrequentFromLastWins(_, _, _, _)
findMostFrequentFromLastWins(map, k, highestFrequency, mostFrequentValue) ==
    IF k > Len(map) THEN mostFrequentValue
    ELSE IF map[k].frequency >= highestFrequency
         THEN findMostFrequentFromLastWins(map, k + 1, map[k].frequency, map[k].value)
    ELSE findMostFrequentFromLastWins(map, k + 1, highestFrequency, mostFrequentValue)

\* The loop of findMostFrequentValue over entries k.. of the map.
RECURSIVE findMostFrequentFrom(_, _, _, _)
findMostFrequentFrom(map, k, highestFrequency, mostFrequentValue) ==
    IF k > Len(map) THEN mostFrequentValue
    ELSE IF map[k].frequency > highestFrequency
         THEN findMostFrequentFrom(map, k + 1, map[k].frequency, map[k].value)
    ELSE findMostFrequentFrom(map, k + 1, highestFrequency, mostFrequentValue)

findMostFrequentValue(frequencyMap) == findMostFrequentFrom(frequencyMap, 1, 0, Null)

\* Variant: a whitespace-only line is counted as empty and then classified
\* by its whitespace as well.
RECURSIVE collectStatsFromNoContinue(_, _, _)
collectStatsFromNoContinue(doc, i, stats) ==
    IF i >= Len(doc) THEN stats
    ELSE LET text == doc[i + 1]
             leadingWhitespace == extractLeadingWhitespace(text)
             spaceCount == Len(leadingWhitespace)
             counted == IF isEmptyOrWhitespace(text)
                        THEN [stats EXCEPT !.emptyLines = @ + 1]
                        ELSE stats
         IN  IF Includes(leadingWhitespace, TAB)
             THEN collectStatsFromNoContinue(doc, i + 1,
                      [counted EXCEPT
                          !.tabIndentedLines = @ + 1,
                          !.mixedIndentationLines =
                              IF Includes(leadingWhitespace, SP) THEN @ + 1 ELSE @])
             ELSE IF Len(leadingWhitespace) > 0
                  THEN collectStatsFromNoContinue(doc, i + 1,
                           [counted EXCEPT
                               !.spaceIndentedLines = @ + 1,
                               !.spaceFrequency =
                                   MapSet(@, spaceCount, MapGetOrZero(@, spaceCount) + 1)])
             ELSE collectStatsFromNoContinue(doc, i + 1, counted)

\* Variant: every line led by a tab is counted as mixed.
RECURSIVE collectStatsFromEveryTabMixed(_, _, _)
collectStatsFromEveryTabMixed(doc, i, stats) ==
    IF i >= Len(doc) THEN stats
    ELSE LET text == doc[i + 1]
             leadingWhitespace == extractLeadingWhitespace(text)
             spaceCount == Len(leadingWhitespace)
         IN  IF isEmptyOrWhitespace(text)
             THEN collectStatsFromEveryTabMixed(doc, i + 1,
                      [stats EXCEPT !.emptyLines = @ + 1])
             ELSE IF Includes(leadingWhitespace, TAB)
                  THEN collectStatsFromEveryTabMixed(doc, i + 1,
                           [stats EXCEPT
                               !.tabIndentedLines = @ + 1,
                               !.mixedIndentationLines = @ + 1])
             ELSE IF Len(leadingWhitespace) > 0
                  THEN collectStatsFromEveryTabMixed(doc, i + 1,
                           [stats EXCEPT
                               !.spaceIndentedLines = @ + 1,
                               !.spaceFrequency =
                                   MapSet(@, spaceCount, MapGetOrZero(@, spaceCount) + 1)])
             ELSE collectStatsFromEveryTabMixed(doc, i + 1, stats)

\* The for loop of collectIndentationStats from line i (0-based) on.
RECURSIVE collectStatsFrom(_, _, _)
collectStatsFrom(doc, i, stats) ==
    IF i >= Len(doc) THEN stats
    ELSE LET text == doc[i + 1]
             leadingWhitespace == extractLeadingWhitespace(text)
             spaceCount == Len(leadingWhitespace)
         IN  IF isEmptyOrWhitespace(text)
             THEN collectStatsFrom(doc, i + 1,
                      [stats EXCEPT !.emptyLines = @ + 1])
             ELSE IF Includes(leadingWhitespace, TAB)
                  THEN collectStatsFrom(doc, i + 1,
                           [stats EXCEPT
                               !.tabIndentedLines = @ + 1,
                               !.mixedIndentationLines =
                                   IF Includes(leadingWhitespace, SP) THEN @ + 1 ELSE @])
             ELSE IF Len(leadingWhitespace) > 0
                  THEN collectStatsFrom(doc, i + 1,
                           [stats EXCEPT
                               !.spaceIndentedLines = @ + 1,
                               !.spaceFrequency =
                                   MapSet(@, spaceCount, MapGetOrZero(@, spaceCount) + 1)])
             ELSE collectStatsFrom(doc, i + 1, stats)

collectIndentationStats(doc) ==
    collectStatsFrom(doc, 0,
        [totalLines |-> Len(doc),
         emptyLines |-> 0,
         tabIndentedLines |-> 0,
         spaceIndentedLines |-> 0,
         mixedIndentationLines |-> 0,
         spaceFrequency |-> <<>>])

\* Variant: whitespace-only lines are not skipped.
RECURSIVE findMixedFromBlankToo(_, _, _)
findMixedFromBlankToo(doc, i, mixedLines) ==
    IF i >= Len(doc) THEN mixedLines
    ELSE LET leadingWhitespace == extractLeadingWhitespace(doc[i + 1])
         IN  IF Includes(leadingWhitespace, TAB) /\ Includes(leadingWhitespace, SP)
             THEN findMixedFromBlankToo(doc, i + 1, Append(mixedLines, i))
             ELSE findMixedFromBlankToo(doc, i + 1, mixedLines)

\* The for loop of findMixedIndentationLines from line i (0-based) on.
RECURSIVE findMixedFrom(_, _, _)
findMixedFrom(doc, i, mixedLines) ==
    IF i >= Len(doc) THEN mixedLines
    ELSE LET leadingWhitespace == extractLeadingWhitespace(doc[i + 1])
         IN  IF isEmptyOrWhitespace(doc[i + 1])
             THEN findMixedFrom(doc, i + 1, mixedLines)
             ELSE IF Includes(leadingWhitespace, TAB) /\ Includes(leadingWhitespace, SP)
                  THEN findMixedFrom(doc, i + 1, Append(mixedLines, i))
             ELSE findMixedFrom(doc, i + 1, mixedLines)

findMixedIndentationLines(doc) == findMixedFrom(doc, 0, <<>>)

analyze(doc) ==
    LET stats == collectIndentationStats(doc)
    IN  [hasTabs |-> stats.tabIndentedLines > 0,
         dominantSpaceLevel |-> findMostFrequentValue(stats.spaceFrequency),
         mixedIndentationLines |-> findMixedIndentationLines(doc),
         indentationStats |-> stats]

(***************************************************************************)
(* vscode.TextDocument: getText, positionAt, offsetAt.                     *)
(***************************************************************************)
\* document.getText(): the lines joined by line feeds.
RECURSIVE JoinLines(_)
JoinLines(doc) ==
    IF Len(doc) = 0 THEN <<>>
    ELSE IF Len(doc) = 1 THEN doc[1]
    ELSE doc[1] \o <<NL>> \o JoinLines(Tail(doc))

getText(doc) == JoinLines(doc)

\* document.positionAt(offset), searching from line l (0-based) on.
RECURSIVE positionFrom(_, _, _)
positionFrom(doc, l, offset) ==
    IF l + 1 >= Len(doc) \/ offset <= Len(doc[l + 1])
    THEN [line |-> l,
          character |-> IF offset <= Len(doc[l + 1]) THEN offset ELSE Len(doc[l + 1])]
    ELSE positionFrom(doc, l + 1, offset - Len(doc[l + 1]) - 1)

positionAt(doc, offset) == positionFrom(doc, 0, offset)

\* document.offsetAt(position); a position past the end of its line, or
\* past the last line, is adjusted to the nearest valid one.
RECURSIVE LineStart(_, _)
LineStart(doc, l) ==
    IF l = 0 THEN 0 ELSE LineStart(doc, l - 1) + Len(doc[l]) + 1

offsetAt(doc, position) ==
    IF position.line >= Len(doc)
    THEN Len(getText(doc))
    ELSE LineStart(doc, position.line)
             + (IF position.character <= Len(doc[position.line + 1])
                THEN position.character
                ELSE Len(doc[position.line + 1]))

\* document.getText(range)
getTextInRange(doc, range) ==
    SubSeq(getText(doc), offsetAt(doc, range.start) + 1, offsetAt(doc, range.end))

\* position.compareTo(other) <= 0
PositionLeq(a, b) ==
    a.line < b.line \/ (a.line = b.line /\ a.character <= b.character)

(***************************************************************************)
(* ContentPreserver.  Each scanner is a global regular expression run by   *)
(* exec over the whole text.  A matcher gives, for a start index s of the  *)
(* text (1-based), the index just after the match that starts at s, or 0   *)
(* when the expression does not match at s.                                *)
(***************************************************************************)
DQ == "\""
SQ == "'"
\* The backtick, which a string of this language cannot hold.
BT == "backtick"
SL == "/"
ST == "*"
BS == "\\"

\* The body (?:[^q\\]|\\.)* and the closing quote q, from index j on.  The
\* alternatives differ in their first character and the quote matches
\* neither, so the match is the first unescaped quote.  For the template
\* expression the third alternative starts with "$", which the texts of
\* this model do not contain.
RECURSIVE QuotedEnd(_, _, _)
QuotedEnd(text, q, j) ==
    IF j > Len(text) THEN 0
    ELSE IF text[j] = q THEN j + 1
    ELSE IF text[j] = BS
         THEN (IF j + 1 <= Len(text) /\ text[j + 1] # NL
               THEN QuotedEnd(text, q, j + 2)
               ELSE 0)
    ELSE QuotedEnd(text, q, j + 1)

\* .*$ under the m flag: up to the next line feed or the end of the text.
RECURSIVE LineEnd(_, _)
LineEnd(text, j) ==
    IF j > Len(text) \/ text[j] = NL THEN j ELSE LineEnd(text, j + 1)

\* [\s\S]*?\*\/ from index j on: up to the first "*/".
RECURSIVE BlockEnd(_, _)
BlockEnd(text, j) ==
    IF j + 1 > Len(text) THEN 0
    ELSE IF text[j] = ST /\ text[j + 1] = SL THEN j + 2
    ELSE BlockEnd(text, j + 1)

\* (?<![=<>:]\s*) at index s: no [=<>:] followed by whitespace only ends at s.
RECURSIVE LookbehindHits(_, _)
LookbehindHits(text, k) ==
    IF k < 1 THEN FALSE
    ELSE IF text[k] \in {"=", "<", ">", ":"} THEN TRUE
    ELSE IF text[k] \in {SP, TAB, NL} THEN LookbehindHits(text, k - 1)
    ELSE FALSE

\* \[(?:[^\r\n\]\\]|\\.)*\] after its opening bracket, from index j on.
RECURSIVE ClassEnd(_, _)
ClassEnd(text, j) ==
    IF j > Len(text) \/ text[j] = NL THEN 0
    ELSE IF text[j] = "]" THEN j + 1
    ELSE IF text[j] = BS
         THEN (IF j + 1 <= Len(text) /\ text[j + 1] # NL THEN ClassEnd(text, j + 2) ELSE 0)
    ELSE ClassEnd(text, j + 1)

\* [gimyus]* from index j on.
RECURSIVE FlagsEnd(_, _)
FlagsEnd(text, j) ==
    IF j <= Len(text) /\ text[j] \in {"g", "i", "m", "y", "u", "s"}
    THEN FlagsEnd(text, j + 1)
    ELSE j

\* (?:[^\r\n[/\\]|\\.|\[...\])+ \/ [gimyus]* from index j on; n is the
\* number of alternatives matched so far.
RECURSIVE RegexBodyEnd(_, _, _)
RegexBodyEnd(text, j, n) ==
    IF j > Len(text) \/ text[j] = NL THEN 0
    ELSE IF text[j] = SL THEN (IF n > 0 THEN FlagsEnd(text, j + 1) ELSE 0)
    ELSE IF text[j] = BS
         THEN (IF j + 1 <= Len(text) /\ text[j + 1] # NL
               THEN RegexBodyEnd(text, j + 2, n + 1)
               ELSE 0)
    ELSE IF text[j] = "["
         THEN (IF ClassEnd(text, j + 1) = 0 THEN 0
               ELSE RegexBodyEnd(text, ClassEnd(text, j + 1), n + 1))
    ELSE RegexBodyEnd(text, j + 1, n + 1)

\* The index just after the match of the scanner's expression at s, or 0.
MatchEnd(kind, text, s) ==
    CASE kind = "doubleQuote" ->
             IF text[s] = DQ THEN QuotedEnd(text, DQ, s + 1) ELSE 0
      [] kind = "singleQuote" ->
             IF text[s] = SQ THEN QuotedEnd(text, SQ, s + 1) ELSE 0
      [] kind = "template" ->
             IF text[s] = BT THEN QuotedEnd(text, BT, s + 1) ELSE 0
      [] kind = "singleLineComment" ->
             IF text[s] = SL /\ s + 1 <= Len(text) /\ text[s + 1] = SL
             THEN LineEnd(text, s + 2) ELSE 0
      [] kind = "multiLineComment" ->
             IF text[s] = SL /\ s + 1 <= Len(text) /\ text[s + 1] = ST
             THEN BlockEnd(text, s + 2) ELSE 0
      [] kind = "regexLiteral" ->
             IF /\ text[s] = SL
                /\ ~LookbehindHits(text, s - 1)
                /\ ~(s + 1 <= Len(text) /\ text[s + 1] \in {ST, "+", "?"})
             THEN RegexBodyEnd(text, s + 1, 0) ELSE 0

\* while ((match = regex.exec(text)) !== null) push a region: the matches
\* found from index s on, each search resuming after the previous match.
RECURSIVE ScanFrom(_, _, _, _)
ScanFrom(kind, doc, text, s) ==
    IF s > Len(text) THEN <<>>
    ELSE LET e == MatchEnd(kind, text, s)
         IN  IF e = 0 THEN ScanFrom(kind, doc, text, s + 1)
             ELSE <<[range |-> [start |-> positionAt(doc, s - 1),
                                end |-> positionAt(doc, e - 1)],
                     content |-> SubSeq(text, s, e - 1)]>>
                      \o ScanFrom(kind, doc, text, e)

captureStringLiterals(doc, text) ==
    ScanFrom("doubleQuote", doc, text, 1)
        \o ScanFrom("singleQuote", doc, text, 1)
        \o ScanFrom("template", doc, text, 1)

captureComments(doc, text) ==
    ScanFrom("singleLineComment", doc, text, 1)
        \o ScanFrom("multiLineComment", doc, text, 1)

captureRegexLiterals(doc, text) == ScanFrom("regexLiteral", doc, text, 1)

\* The value of preservedRegions after captureRegions(document).
captureRegions(doc) ==
    captureStringLiterals(doc, getText(doc))
        \o captureComments(doc, getText(doc))
        \o captureRegexLiterals(doc, getText(doc))

\* restoreRegions builds a WorkspaceEdit from the regions, applies it to
\* nothing and returns the document it was given.
restoreRegions(regions, doc) == doc

\* The processor handed to preserveContent: it converts the document.
processor(doc, size, opts) == applyEdit(doc, convert(doc, size, opts).edits)

(***************************************************************************)
(* TabberService                                                           *)
(***************************************************************************)
\* The edits generateConversionEdits returns; the regions its preserver
\* captured are not consulted.
generateConversionEdits(doc, size, preserve) ==
    convert(doc, size,
            [preserveIndentationInEmptyLines |-> preserve,
             onlyLeadingSpaces |-> TRUE]).edits

(***************************************************************************)
(* IndentationFixer.  The steps of fixSingleFile that can fail are the     *)
(* opening of the document, the analysis, the conversion, applyEdit and    *)
(* save.  env says how each of them ends in one call: a step throws        *)
(* (rejects) with env.message, or completes; applyEdit and save may also   *)
(* complete reporting false, the edit not applied or the file not saved.   *)
(***************************************************************************)
Messages == {"EBUSY", "EACCES"}

\* No step throws: applyEdit and save complete, each with either report.
Completing ==
    [open : {"ok"}, analyze : {"ok"}, convert : {"ok"},
     applyEdit : {"applied", "notApplied"}, save : {"saved", "notSaved"},
     message : {"none"}]

\* One step throws; the steps before it complete and the steps after it
\* are not reached.
Throwing ==
    [open : {"throw"}, analyze : {"ok"}, convert : {"ok"},
     applyEdit : {"applied"}, save : {"saved"}, message : Messages]
      \cup [open : {"ok"}, analyze : {"throw"}, convert : {"ok"},
            applyEdit : {"applied"}, save : {"saved"}, message : Messages]
      \cup [open : {"ok"}, analyze : {"ok"}, convert : {"throw"},
            applyEdit : {"applied"}, save : {"saved"}, message : Messages]
      \cup [open : {"ok"}, analyze : {"ok"}, convert : {"ok"},
            applyEdit : {"throw"}, save : {"saved"}, message : Messages]
      \cup [open : {"ok"}, analyze : {"ok"}, convert : {"ok"},
            applyEdit : {"applied", "notApplied"}, save : {"throw"},
            message : Messages]

Environments == Completing \cup Throwing

\* The result returned when openTextDocument rejects.
OpenFailedResult(filePath, errorMessage) ==
    [filePath |-> filePath, linesChanged |-> 0, spacesReplaced |-> 0,
     success |-> FALSE, error |-> <<"Failed to open file: ", errorMessage>>]

\* Variant: the catch block reports a fixed text, not the error's message.
CaughtResultNoMessage(filePath, errorMessage) ==
    [filePath |-> filePath, linesChanged |-> 0, spacesReplaced |-> 0,
     success |-> FALSE, error |-> <<"Unknown error">>]

\* The result returned by the catch block of fixSingleFile.
CaughtResult(filePath, errorMessage) ==
    [filePath |-> filePath, linesChanged |-> 0, spacesReplaced |-> 0,
     success |-> FALSE, error |-> <<errorMessage>>]

SuccessResult(filePath, linesChanged, spacesReplaced) ==
    [filePath |-> filePath, linesChanged |-> linesChanged,
     spacesReplaced |-> spacesReplaced, success |-> TRUE]

\* Variant: the file is always handed to the converter.
NothingToFixNever(analysis) == FALSE

\* The test of the fast path.
NothingToFix(analysis) ==
    /\ analysis.indentationStats.spaceIndentedLines = 0
    /\ analysis.indentationStats.mixedIndentationLines = 0

\* fixSingleFile(filePath, tabSize, options) on the workspace ws under env.
\* Beside the result it gives the workspace the call leaves behind, the
\* steps it entered (calls) and the step that threw, if one did (raised).
fixSingleFile(ws, filePath, size, opts, env) ==
    LET doc == ws[filePath]
        result == convert(doc, size, opts)
        edited == IF env.applyEdit = "applied"
                  THEN [ws EXCEPT ![filePath] = applyEdit(doc, result.edits)]
                  ELSE ws
        Outcome(res, after, calls, raised) ==
            [result |-> res, workspace |-> after, calls |-> calls, raised |-> raised]
        Caught(after, calls, raised) ==
            Outcome(CaughtResult(filePath, env.message), after, calls, raised)
    IN  IF env.open = "throw"
        THEN Outcome(OpenFailedResult(filePath, env.message), ws,
                     <<"openTextDocument">>, "openTextDocument")
        ELSE IF env.analyze = "throw"
             THEN Caught(ws, <<"openTextDocument", "analyze">>, "analyze")
        ELSE IF NothingToFix(analyze(doc))
             THEN Outcome(SuccessResult(filePath, 0, 0), ws,
                          <<"openTextDocument", "analyze">>, "none")
        ELSE IF env.convert = "throw"
             THEN Caught(ws, <<"openTextDocument", "analyze", "convert">>, "convert")
        ELSE IF Len(result.edits) > 0
             THEN IF env.applyEdit = "throw"
                  THEN Caught(ws, <<"openTextDocument", "analyze", "convert",
                                    "applyEdit">>, "applyEdit")
                  ELSE IF env.save = "throw"
                       THEN Caught(edited, <<"openTextDocument", "analyze", "convert",
                                             "applyEdit", "save">>, "save")
                  ELSE Outcome(SuccessResult(filePath, result.linesChanged,
                                             result.spacesReplaced),
                               edited, <<"openTextDocument", "analyze", "convert",
                                         "applyEdit", "save">>, "none")
        ELSE Outcome(SuccessResult(filePath, result.linesChanged, result.spacesReplaced),
                     ws, <<"openTextDocument", "analyze", "convert">>, "none")

\* The summary fixAllFiles starts from.
EmptySummary(filePaths) ==
    [totalFiles |-> Len(filePaths), totalFilesFixed |-> 0, totalLinesChanged |-> 0,
     totalSpacesReplaced |-> 0, failedFiles |-> <<>>, results |-> <<>>]

\* Variant: only the result of a file that was fixed is kept.
pushResultOfFixedOnly(summary, filePath, result) ==
    IF result.success
    THEN [summary EXCEPT
             !.results = Append(@, result),
             !.totalFilesFixed = IF result.linesChanged > 0 THEN @ + 1 ELSE @,
             !.totalLinesChanged = @ + result.linesChanged,
             !.totalSpacesReplaced = @ + result.spacesReplaced]
    ELSE [summary EXCEPT !.failedFiles = Append(@, filePath)]

\* Variant: every file that did not fail counts as fixed.
pushResultAllFixed(summary, filePath, result) ==
    IF result.success
    THEN [summary EXCEPT
             !.results = Append(@, result),
             !.totalFilesFixed = @ + 1,
             !.totalLinesChanged = @ + result.linesChanged,
             !.totalSpacesReplaced = @ + result.spacesReplaced]
    ELSE [summary EXCEPT
             !.results = Append(@, result),
             !.failedFiles = Append(@, filePath)]

\* The body of the loop of fixAllFiles once fixSingleFile has returned.
pushResult(summary, filePath, result) ==
    IF result.success
    THEN [summary EXCEPT
             !.results = Append(@, result),
             !.totalFilesFixed = IF result.linesChanged > 0 THEN @ + 1 ELSE @,
             !.totalLinesChanged = @ + result.linesChanged,
             !.totalSpacesReplaced = @ + result.spacesReplaced]
    ELSE [summary EXCEPT
             !.results = Append(@, result),
             !.failedFiles = Append(@, filePath)]

(***************************************************************************)
(* ConfigurationService.  A setting is <<>> when it is not configured and  *)
(* <<v>> when it is configured to v; an undefined value read from the      *)
(* editor's configuration is <<>> as well.                                 *)
(***************************************************************************)
Languages == {"typescript", "markdown"}

\* The defaults package.json contributes for the section 'tabber'.
PackageDefaults ==
    [tabSize |-> 4,
     formatOnSave |-> FALSE,
     excludedLanguages |-> <<"markdown", "plaintext">>,
     includeLanguagesOnly |-> <<>>,
     respectVSCodeSettings |-> TRUE,
     preserveIndentationInEmptyLines |-> TRUE,
     analyzeOnOpen |-> FALSE]

\* configuration.get(key): the configured value, else the default.
Get(section, key) ==
    IF section[key] = <<>> THEN PackageDefaults[key] ELSE section[key][1]

\* value || fallback, for a value whose only falsy form is falsy.
OrElse(value, falsy, fallback) == IF value = falsy THEN fallback ELSE value

\* The values loadConfiguration caches from the section 'tabber'.
loadConfiguration(tabber) ==
    [tabSize |-> OrElse(Get(tabber, "tabSize"), 0, 4),
     formatOnSave |-> OrElse(Get(tabber, "formatOnSave"), FALSE, FALSE),
     excludedLanguages |-> Get(tabber, "excludedLanguages"),
     includeLanguagesOnly |-> Get(tabber, "includeLanguagesOnly"),
     respectVSCodeSettings |-> OrElse(Get(tabber, "respectVSCodeSettings"), FALSE, TRUE),
     preserveIndentationInEmptyLines |->
         OrElse(Get(tabber, "preserveIndentationInEmptyLines"), FALSE, TRUE),
     analyzeOnOpen |-> OrElse(Get(tabber, "analyzeOnOpen"), FALSE, FALSE)]

\* getEffectiveTabSize(document) for a document of language languageId.
getEffectiveTabSize(cfg, s, languageId) ==
    LET editorConfig == s.languageEditor[languageId]
    IN  IF /\ cfg.respectVSCodeSettings
           /\ editorConfig # <<>>
           /\ editorConfig[1].tabSize # <<>>
        THEN editorConfig[1].tabSize[1]
        ELSE IF cfg.respectVSCodeSettings /\ s.editorTabSize # <<>>
             THEN s.editorTabSize[1]
        ELSE cfg.tabSize

\* shouldProcessFile(document, respectInsertSpacesSetting)
shouldProcessFile(cfg, s, languageId, respectInsertSpacesSetting) ==
    LET editorConfig == s.languageEditor[languageId]
    IN  IF Includes(cfg.excludedLanguages, languageId) THEN FALSE
        ELSE IF Len(cfg.includeLanguagesOnly) > 0
             THEN Includes(cfg.includeLanguagesOnly, languageId)
        ELSE IF /\ respectInsertSpacesSetting
                /\ cfg.respectVSCodeSettings
                /\ editorConfig # <<>>
                /\ editorConfig[1].insertSpaces = <<TRUE>>
             THEN FALSE
        ELSE TRUE

(***************************************************************************)
(* scripts/fix-indentation.js                                              *)
(***************************************************************************)
\* The callback of lines.map in the script's fixSingleFile: the new text of
\* one line.
newLines(line, size) ==
    LET leadingWhitespace == extractLeadingWhitespace(line)
        indentLevel == Len(leadingWhitespace) \div size
        remainder == Len(leadingWhitespace) % size
        newIndentation == repeatCharacter(TAB, indentLevel) \o repeatCharacter(SP, remainder)
    IN  IF isEmptyOrWhitespace(line) THEN line
        ELSE IF ~Includes(leadingWhitespace, SP) THEN line
        ELSE newIndentation \o SubSeq(line, Len(leadingWhitespace) + 1, Len(line))

(***************************************************************************)
(* TabberService.convertSpacesToTabs                                       *)
(***************************************************************************)
\* The range of the line an edit replaces, as it was in doc.
RangeOf(doc, edit) ==
    [start |-> [line |-> edit.line, character |-> 0],
     end |-> [line |-> edit.line, character |-> Len(doc[edit.line + 1])]]

\* The loop of convertSpacesToTabs that adds up spacesReplaced from edit k
\* on: the text each range holds in the document as it is now (live), less
\* the spaces of the new text.  The ranges are those of the lines of the
\* document the edits were made for (original).
RECURSIVE spacesReplacedFrom(_, _, _, _)
spacesReplacedFrom(live, original, edits, k) ==
    IF k > Len(edits) THEN 0
    ELSE countSpaces(getTextInRange(live, RangeOf(original, edits[k])))
             - countSpaces(edits[k].newText)
             + spacesReplacedFrom(live, original, edits, k + 1)

\* convertSpacesToTabs() with the document doc of language languageId in
\* the active editor; applied says how applyEdit ends.  Gives the document
\* afterwards, the edits generated and the notification shown.
convertSpacesToTabs(doc, languageId, cfg, s, applyOutcome) ==
    LET edits == generateConversionEdits(doc, getEffectiveTabSize(cfg, s, languageId),
                                         cfg.preserveIndentationInEmptyLines)
        after == applyEdit(doc, edits)
    IN  IF ~shouldProcessFile(cfg, s, languageId, TRUE)
        THEN [document |-> doc, edits |-> <<>>,
              notification |-> [kind |-> "information",
                                message |-> "Skipping file due to excluded language"]]
        ELSE IF Len(edits) = 0
             THEN [document |-> doc, edits |-> edits,
                   notification |-> [kind |-> "information",
                                     message |-> "No spaces to convert"]]
        ELSE IF applyOutcome = "throw"
             THEN [document |-> doc, edits |-> edits,
                   notification |-> [kind |-> "error",
                                     message |-> "Error converting spaces to tabs"]]
        ELSE IF applyOutcome = "notApplied"
             THEN [document |-> doc, edits |-> edits,
                   notification |-> [kind |-> "error",
                                     message |-> "Failed to apply edits"]]
        ELSE [document |-> after, edits |-> edits,
              notification |-> [kind |-> "information",
                                message |-> "Converted",
                                lines |-> Len(edits),
                                spaces |-> spacesReplacedFrom(after, doc, edits, 1)]]

(***************************************************************************)
(* Input domains.                                                          *)
(***************************************************************************)
SeqsUpTo(S, n) == UNION {[1..k -> S] : k \in 0..n}

\* Line contents after the indentation: none, or two words two spaces apart.
Contents == {<<>>, <<"a", SP, SP, "a">>}

\* One-line documents with any leading whitespace up to MaxIndent.
IndentedLines == {p \o c : p \in SeqsUpTo({SP, TAB}, MaxIndent), c \in Contents}

\* Short lines: a word behind at most two characters of leading whitespace,
\* the empty line and a line of two spaces.
ShortLines ==
    {p \o <<"a">> : p \in SeqsUpTo({SP, TAB}, 2)} \cup {<<>>, <<SP, SP>>}

\* Documents of one more line, each a word behind one or two spaces.
WidthDocuments == [1..(MaxLines + 1) -> {<<SP, "a">>, <<SP, SP, "a">>}]

\* One-line documents of indented lines, documents of up to MaxLines
\* short lines and the documents of space-indented lines.
IndentedDocuments ==
    {<<l>> : l \in IndentedLines}
        \cup UNION {[1..k -> ShortLines] : k \in 1..MaxLines}
        \cup WidthDocuments

\* text.split("\n")
RECURSIVE SplitLines(_, _)
SplitLines(text, line) ==
    IF text = <<>> THEN <<line>>
    ELSE IF Head(text) = NL THEN <<line>> \o SplitLines(Tail(text), <<>>)
    ELSE SplitLines(Tail(text), Append(line, Head(text)))

\* Documents whose text holds the delimiters the scanners look for.
LiteralAlphabet == {"a", SP, DQ, SQ, BT, SL, ST, NL}

LiteralDocuments == {SplitLines(t, <<>>) : t \in SeqsUpTo(LiteralAlphabet, MaxText)}

OptionValues == [preserveIndentationInEmptyLines : BOOLEAN, onlyLeadingSpaces : BOOLEAN]

\* The options the constructor sets when it is given none.
DefaultOptions == [preserveIndentationInEmptyLines |-> TRUE, onlyLeadingSpaces |-> TRUE]

NoCall == [op |-> "none"]

Paths == {"a.ts", "b.ts"}

\* The files of a workspace: a line indented by spaces, by a tab, by a tab
\* and a space, and a line of spaces only.
FileDocuments ==
    {<<<<SP, SP, "a">>>>, <<<<TAB, "a">>>>, <<<<TAB, SP, "a">>>>, <<<<SP, SP>>>>}

Workspaces == [Paths -> FileDocuments]

\* A workspace the document operations never look at.
NoWorkspace == [filePath \in Paths |-> <<<<>>>>]

FilePathLists == UNION {[1..k -> Paths] : k \in 0..MaxFiles}

NoBatch == [filePaths |-> <<>>, done |-> 0, running |-> FALSE]

InitWith(documents, tabSizes, optionValues, workspaces) ==
    /\ document \in documents
    /\ tabSize \in tabSizes
    /\ options \in optionValues
    /\ ret = NoCall
    /\ applied = <<>>
    /\ preservedRegions = <<>>
    /\ workspace \in workspaces
    /\ batch = NoBatch

\* The values a setting of the section 'tabber' is configured to.
TabberValues ==
    [tabSize |-> {2},
     formatOnSave |-> {TRUE},
     excludedLanguages |-> {<<>>, <<"typescript">>},
     includeLanguagesOnly |-> {<<"typescript">>, <<"markdown">>},
     respectVSCodeSettings |-> BOOLEAN,
     preserveIndentationInEmptyLines |-> BOOLEAN,
     analyzeOnOpen |-> {TRUE}]

TabberKeys == DOMAIN TabberValues

NothingConfigured == [key \in TabberKeys |-> <<>>]

\* The value of 'editor' in the configuration of a language: undefined, or
\* an object that sets tabSize or insertSpaces.
LanguageEditorConfigs ==
    {<<>>,
     <<[tabSize |-> <<1>>, insertSpaces |-> <<>>]>>,
     <<[tabSize |-> <<>>, insertSpaces |-> <<TRUE>>]>>}

\* editor.tabSize: undefined or 3.
EditorTabSizes == {<<>>, <<3>>}

\* Nothing is configured, for the extension or for the editor.
NoSettings ==
    [tabber |-> NothingConfigured,
     editorTabSize |-> <<>>,
     languageEditor |-> [languageId \in Languages |-> <<>>]]

\* The extension starts with none of its settings configured, whatever the
\* editor's configuration is.
InitialSettings ==
    [tabber : {NothingConfigured},
     editorTabSize : EditorTabSizes,
     languageEditor : {[languageId \in Languages |->
                           IF languageId = "typescript" THEN editor ELSE <<>>] :
                       editor \in LanguageEditorConfigs}]

\* new ConfigurationService(): the constructor loads the configuration.
InitConfig(settingsValues) ==
    /\ settings \in settingsValues
    /\ config = loadConfiguration(settings.tabber)

Init ==
    /\ InitWith(IndentedDocuments, 1..MaxTabSize, OptionValues, {NoWorkspace})
    /\ InitConfig({NoSettings})

InitLiterals ==
    /\ InitWith(LiteralDocuments, 1..MaxTabSize, {DefaultOptions}, {NoWorkspace})
    /\ InitConfig({NoSettings})

\* The documents of the active editor: the lines of the command test (4, 8
\* and 4 spaces), and a line led by a tab.
ServiceDocuments ==
    {<<<<SP, SP, SP, SP, "a">>,
       <<SP, SP, SP, SP, SP, SP, SP, SP, "a">>,
       <<SP, SP, SP, SP, "a">>>>,
     <<<<TAB, "a">>>>}

\* The extension is activated with a document in the active editor.
InitService ==
    /\ InitWith(ServiceDocuments, {PackageDefaults.tabSize}, {DefaultOptions},
                {NoWorkspace})
    /\ InitConfig(InitialSettings)

\* The fixer is called with its default options.
InitFixer ==
    /\ InitWith({<<<<>>>>}, 1..MaxTabSize, {DefaultOptions}, Workspaces)
    /\ InitConfig({NoSettings})

\* The same with a tab size of 2 or the largest one.
InitFixerLive ==
    /\ InitWith({<<<<>>>>}, {2, MaxTabSize}, {DefaultOptions}, Workspaces)
    /\ InitConfig({NoSettings})

(***************************************************************************)
(* Operations.                                                             *)
(***************************************************************************)
\* converter.convert(document)
Convert ==
    /\ ret' = [op |-> "convert", result |-> convert(document, tabSize, options)]
    /\ UNCHANGED <<document, tabSize, options, applied, preservedRegions, workspace, batch, settings, config>>

\* analyzer.analyze(document)
Analyze ==
    /\ ret' = [op |-> "analyze", result |-> analyze(document)]
    /\ UNCHANGED <<document, tabSize, options, applied, preservedRegions, workspace, batch, settings, config>>

\* preserver.captureRegions(document)
CaptureRegions ==
    /\ preservedRegions' = captureRegions(document)
    /\ UNCHANGED <<document, tabSize, options, ret, applied, workspace, batch, settings, config>>

\* tabberService.generateConversionEdits(document)
GenerateConversionEdits ==
    /\ preservedRegions' = captureRegions(document)
    /\ ret' = [op |-> "generateConversionEdits",
               result |-> [edits |-> generateConversionEdits(document, tabSize,
                                         options.preserveIndentationInEmptyLines)]]
    /\ UNCHANGED <<document, tabSize, options, applied, workspace, batch, settings, config>>

\* The caller applies the edits it was just given, when there are any.
ApplyEdits ==
    /\ ret.op \in {"convert", "generateConversionEdits"}
    /\ Len(ret.result.edits) > 0
    /\ Len(applied) < MaxApply
    /\ document' = applyEdit(document, ret.result.edits)
    /\ applied' = Append(applied, ret.op)
    /\ ret' = [op |-> "applyEdit"]
    /\ UNCHANGED <<tabSize, options, preservedRegions, workspace, batch, settings, config>>

\* preserver.preserveContent(document, processor)
PreserveContent ==
    /\ Len(applied) < MaxApply
    /\ preservedRegions' = captureRegions(document)
    /\ document' = restoreRegions(captureRegions(document),
                                  processor(document, tabSize, options))
    /\ applied' = IF document' # document
                  THEN Append(applied, "preserveContent")
                  ELSE applied
    /\ ret' = [op |-> "preserveContent"]
    /\ UNCHANGED <<tabSize, options, workspace, batch, settings, config>>

Next ==
    \/ Convert
    \/ Analyze
    \/ CaptureRegions
    \/ GenerateConversionEdits
    \/ ApplyEdits
    \/ PreserveContent

Spec == Init /\ [][Next]_vars

SpecLiterals == InitLiterals /\ [][Next]_vars

(***************************************************************************)
(* Operations of IndentationFixer.  Calls are made one after the other: a  *)
(* new call starts when no fixAllFiles is in progress.                     *)
(***************************************************************************)
\* await IndentationFixer.fixSingleFile(filePath, tabSize, options)
FixSingleFile ==
    /\ ~batch.running
    /\ \E filePath \in Paths, env \in Environments :
           \E outcome \in {fixSingleFile(workspace, filePath, tabSize, options, env)} :
               /\ workspace' = outcome.workspace
               /\ ret' = [op |-> "fixSingleFile",
                          result |-> outcome.result,
                          calls |-> outcome.calls,
                          raised |-> outcome.raised,
                          message |-> env.message,
                          applyEdit |-> env.applyEdit,
                          before |-> workspace[filePath]]
    /\ UNCHANGED <<document, tabSize, options, applied, preservedRegions, batch, settings, config>>

\* IndentationFixer.fixAllFiles(filePaths, tabSize, options) is called.
FixAllFilesStart ==
    /\ ~batch.running
    /\ \E filePaths \in FilePathLists :
           batch' = [filePaths |-> filePaths, done |-> 0, running |-> TRUE,
                     summary |-> EmptySummary(filePaths)]
    /\ ret' = NoCall
    /\ UNCHANGED <<document, tabSize, options, applied, preservedRegions, workspace, settings, config>>

\* One turn of the loop: the next file path is fixed and its result kept.
FixAllFilesStep ==
    /\ batch.running
    /\ batch.done < Len(batch.filePaths)
    /\ \E env \in Environments, filePath \in {batch.filePaths[batch.done + 1]} :
           \E outcome \in {fixSingleFile(workspace, filePath, tabSize, options, env)} :
               /\ workspace' = outcome.workspace
               /\ batch' = [batch EXCEPT
                                !.done = @ + 1,
                                !.summary = pushResult(@, filePath, outcome.result)]
    /\ UNCHANGED <<document, tabSize, options, ret, applied, preservedRegions, settings, config>>

\* The loop is over: fixAllFiles returns the summary.
FixAllFilesReturn ==
    /\ batch.running
    /\ batch.done = Len(batch.filePaths)
    /\ ret' = [op |-> "fixAllFiles", filePaths |-> batch.filePaths,
               summary |-> batch.summary]
    /\ batch' = NoBatch
    /\ UNCHANGED <<document, tabSize, options, applied, preservedRegions, workspace, settings, config>>

(***************************************************************************)
(* Operations of ConfigurationService and of TabberService.                *)
(***************************************************************************)
\* A setting of the extension is configured or reset; the event affects
\* 'tabber', so handleConfigChange loads the configuration again.
ChangeTabberConfiguration ==
    /\ \E key \in TabberKeys :
           \E value \in {<<>>} \cup {<<v>> : v \in TabberValues[key]} :
               /\ value # settings.tabber[key]
               /\ settings' = [settings EXCEPT !.tabber[key] = value]
    /\ Cardinality({key \in TabberKeys : settings'.tabber[key] # <<>>}) <= MaxConfigured
    /\ config' = loadConfiguration(settings'.tabber)
    /\ UNCHANGED <<document, tabSize, options, ret, applied, preservedRegions,
                   workspace, batch>>

\* editor.tabSize is configured or reset; the event does not affect
\* 'tabber', so handleConfigChange does nothing.
ChangeEditorConfiguration ==
    /\ \E value \in EditorTabSizes :
           /\ value # settings.editorTabSize
           /\ settings' = [settings EXCEPT !.editorTabSize = value]
    /\ UNCHANGED <<document, tabSize, options, ret, applied, preservedRegions,
                   workspace, batch, config>>

\* configService.getEffectiveTabSize(document)
GetEffectiveTabSize ==
    /\ \E languageId \in Languages :
           ret' = [op |-> "getEffectiveTabSize", languageId |-> languageId,
                   result |-> getEffectiveTabSize(config, settings, languageId)]
    /\ UNCHANGED <<document, tabSize, options, applied, preservedRegions,
                   workspace, batch, settings, config>>

\* configService.shouldProcessFile(document, respectInsertSpacesSetting)
ShouldProcessFile ==
    /\ \E languageId \in Languages, respectInsertSpacesSetting \in BOOLEAN :
           ret' = [op |-> "shouldProcessFile", languageId |-> languageId,
                   result |-> shouldProcessFile(config, settings, languageId,
                                                respectInsertSpacesSetting)]
    /\ UNCHANGED <<document, tabSize, options, applied, preservedRegions,
                   workspace, batch, settings, config>>

\* tabberService.convertSpacesToTabs() on the document of the active editor.
ConvertSpacesToTabs ==
    /\ Len(applied) < MaxApply
    /\ \E languageId \in Languages, applyOutcome \in {"applied", "notApplied", "throw"} :
           \E outcome \in {convertSpacesToTabs(document, languageId, config, settings,
                                                applyOutcome)} :
               /\ document' = outcome.document
               /\ applied' = IF outcome.document # document
                             THEN Append(applied, "convertSpacesToTabs")
                             ELSE applied
               /\ ret' = [op |-> "convertSpacesToTabs",
                          languageId |-> languageId,
                          before |-> document,
                          edits |-> outcome.edits,
                          notification |-> outcome.notification]
    /\ UNCHANGED <<tabSize, options, preservedRegions, workspace, batch, settings, config>>

NextService ==
    \/ ChangeTabberConfiguration
    \/ ChangeEditorConfiguration
    \/ GetEffectiveTabSize
    \/ ShouldProcessFile
    \/ ConvertSpacesToTabs

SpecService == InitService /\ [][NextService]_vars

NextFixer ==
    \/ FixSingleFile
    \/ FixAllFilesStart
    \/ FixAllFilesStep
    \/ FixAllFilesReturn

SpecFixer == InitFixer /\ [][NextFixer]_vars

\* Every awaited call settles, so the loop of fixAllFiles goes on and the
\* call returns.
SpecFixerLive ==
    /\ InitFixerLive
    /\ [][NextFixer]_vars
    /\ WF_vars(FixAllFilesStep)
    /\ WF_vars(FixAllFilesReturn)

(***************************************************************************)
(* Properties of SpaceToTabConverter.convert.  When ret.op = "convert",    *)
(* ret.result is what convert returned for the present document, tab size  *)
(* and options.                                                            *)
(***************************************************************************)
Converted == ret.op = "convert"

\* Line numbers (0-based) of the present document.
LineNumbers == 0..(Len(document) - 1)

LeadingOf(i) == extractLeadingWhitespace(document[i + 1])

NonBlank(i) == \E k \in 1..Len(document[i + 1]) : ~IsSpaceOrTab(document[i + 1][k])

HasEdit(edits, i) == \E k \in 1..Len(edits) : edits[k].line = i

\* Line i as the edits leave it.
LineAfter(edits, i) ==
    IF HasEdit(edits, i)
    THEN edits[CHOOSE k \in 1..Len(edits) : edits[k].line = i].newText
    ELSE document[i + 1]

NumberOf(text, c) == Cardinality({k \in 1..Len(text) : text[k] = c})

\* t tabs followed by s spaces.
TabsThenSpaces(t, s) == [k \in 1..(t + s) |-> IF k <= t THEN TAB ELSE SP]

\* The text of a line after its maximal leading run of spaces and tabs.
RECURSIVE AfterLeading(_)
AfterLeading(line) ==
    IF line = <<>> \/ ~IsSpaceOrTab(Head(line)) THEN line ELSE AfterLeading(Tail(line))

\* C1: with onlyLeadingSpaces, a non-blank line led by n >= 1 spaces and no
\* tab is left with floor(n / w) tabs followed by n mod w spaces, and has an
\* edit exactly when that prefix differs from the old one.
C1_SpacesToTabs ==
    (Converted /\ options.onlyLeadingSpaces) =>
        \A i \in LineNumbers :
            LET n == Len(LeadingOf(i))
                expected == TabsThenSpaces(n \div tabSize, n % tabSize)
            IN  (NonBlank(i) /\ n >= 1 /\ ~Includes(LeadingOf(i), TAB)) =>
                    /\ extractLeadingWhitespace(LineAfter(ret.result.edits, i)) = expected
                    /\ HasEdit(ret.result.edits, i) <=> (expected # LeadingOf(i))

\* Four spaces at tab size 4 became one tab, and a shorter run was left alone.
C1_Witness ==
    /\ Converted /\ options.onlyLeadingSpaces /\ tabSize = 4
    /\ \E i \in LineNumbers :
           /\ NonBlank(i)
           /\ LeadingOf(i) = <<SP, SP, SP, SP>>
           /\ HasEdit(ret.result.edits, i)
           /\ extractLeadingWhitespace(LineAfter(ret.result.edits, i)) = <<TAB>>

\* The prefix the claim computes for leading whitespace of t tabs and s spaces.
MixedExpected(lead) ==
    LET total == NumberOf(lead, SP) + NumberOf(lead, TAB) * tabSize
    IN  TabsThenSpaces(total \div tabSize, total % tabSize)

IsMixed(lead) == Includes(lead, TAB) /\ Includes(lead, SP)

C3_ContentUntouched ==
    (Converted /\ options.onlyLeadingSpaces) =>
        \A k \in 1..Len(ret.result.edits) :
            AfterLeading(ret.result.edits[k].newText)
                = AfterLeading(document[ret.result.edits[k].line + 1])

\* An edit of a line whose content holds two spaces in a row, at a tab size
\* that would turn them into a tab.
C3_Witness ==
    /\ Converted /\ options.onlyLeadingSpaces /\ tabSize = 2
    /\ \E k \in 1..Len(ret.result.edits) :
           /\ AfterLeading(document[ret.result.edits[k].line + 1]) = <<"a", SP, SP, "a">>
           /\ AfterLeading(ret.result.edits[k].newText) = <<"a", SP, SP, "a">>

\* C4: once the edits convert returned have been applied, convert with the
\* same settings returns no edit.
C4_Idempotent ==
    (Converted /\ Len(applied) > 0 /\ applied[Len(applied)] = "convert") =>
        ret.result.edits = <<>>

\* convert ran again after its own edits were applied.
C4_Witness ==
    /\ Converted
    /\ Len(applied) > 0 /\ applied[Len(applied)] = "convert"
    /\ ret.result.edits = <<>>
    /\ \E i \in LineNumbers : Includes(LeadingOf(i), TAB)

\* C5: with onlyLeadingSpaces, a line whose leading whitespace is empty or
\* only tabs has no edit.
C5_NoEditForTabs ==
    (Converted /\ options.onlyLeadingSpaces) =>
        \A i \in LineNumbers :
            ~Includes(LeadingOf(i), SP) => ~HasEdit(ret.result.edits, i)

\* Converted documents with a tab-indented line and with an unindented one.
C5_Witness ==
    /\ Converted /\ options.onlyLeadingSpaces
    /\ Len(document) = 2
    /\ LeadingOf(0) = <<TAB, TAB>>
    /\ LeadingOf(1) = <<>> /\ NonBlank(1)
    /\ ret.result.edits = <<>>

(***************************************************************************)
(* Properties of ContentPreserver and generateConversionEdits, over the    *)
(* documents of literals (SpecLiterals).                                   *)
(***************************************************************************)
\* The leading whitespace of line i lies inside the region.
LeadingInside(i, region) ==
    /\ Len(LeadingOf(i)) > 0
    /\ PositionLeq(region.range.start, [line |-> i, character |-> 0])
    /\ PositionLeq([line |-> i, character |-> Len(LeadingOf(i))], region.range.end)

\* C6: the edits of generateConversionEdits hold no edit for a line whose
\* leading whitespace lies inside a region its preserver captured.
C6_NoEditInsideRegion ==
    ret.op = "generateConversionEdits" =>
        \A k \in 1..Len(ret.result.edits) :
            \A r \in 1..Len(preservedRegions) :
                ~LeadingInside(ret.result.edits[k].line, preservedRegions[r])

PositionLess(a, b) == PositionLeq(a, b) /\ a # b

Overlap(a, b) ==
    /\ PositionLess(a.range.start, b.range.end)
    /\ PositionLess(b.range.start, a.range.end)

\* C7: the regions captureRegions records are pairwise non-overlapping.
C7_RegionsDisjoint ==
    \A a, b \in 1..Len(preservedRegions) :
        a # b => ~Overlap(preservedRegions[a], preservedRegions[b])

\* C8: in the document preserveContent returns, the text of every captured
\* region is the region's original content.
C8_RegionsRestored ==
    ret.op = "preserveContent" =>
        \A r \in 1..Len(preservedRegions) :
            getTextInRange(document, preservedRegions[r].range)
                = preservedRegions[r].content

(***************************************************************************)
(* Counters of convert and of analyze.                                     *)
(***************************************************************************)
\* The spaces the edits from the k-th on removed from leading whitespace.
RECURSIVE SpacesRemoved(_, _)
SpacesRemoved(edits, k) ==
    IF k > Len(edits) THEN 0
    ELSE NumberOf(LeadingOf(edits[k].line), SP)
             - NumberOf(extractLeadingWhitespace(edits[k].newText), SP)
             + SpacesRemoved(edits, k + 1)

\* C9: linesChanged is the number of edits and spacesReplaced the sum over
\* the edits of the spaces of the old leading whitespace less those of the
\* new; at tab size 4 an edit of a run of 4k + r spaces (0 < r < 4) accounts
\* for 4k of them.
C9_Counters ==
    Converted =>
        /\ ret.result.linesChanged = Len(ret.result.edits)
        /\ ret.result.spacesReplaced = SpacesRemoved(ret.result.edits, 1)
        /\ (tabSize = 4 /\ Len(document) = 1 /\ HasEdit(ret.result.edits, 0)
                /\ ~Includes(LeadingOf(0), TAB) /\ Len(LeadingOf(0)) % 4 # 0) =>
               ret.result.spacesReplaced = Len(LeadingOf(0)) - (Len(LeadingOf(0)) % 4)

\* Five leading spaces at tab size 4: one edit, four spaces replaced.
C9_Witness ==
    /\ Converted /\ tabSize = 4
    /\ document = <<<<SP, SP, SP, SP, SP, "a", SP, SP, "a">>>>
    /\ ret.result.linesChanged = 1
    /\ ret.result.spacesReplaced = 4

SpaceIndented(i) ==
    NonBlank(i) /\ Len(LeadingOf(i)) > 0 /\ ~Includes(LeadingOf(i), TAB)

\* The lines counted under width n in the frequency map.
FrequencyIn(map, n) ==
    IF \E k \in 1..Len(map) : map[k].value = n
    THEN map[CHOOSE k \in 1..Len(map) : map[k].value = n].frequency
    ELSE 0

\* C10: analyze counts the blank lines, and among the others the lines led
\* by a tab, by a tab and a space, by spaces only, and the space-indented
\* lines of each width; hasTabs says whether a line is led by a tab.
C10_Classification ==
    ret.op = "analyze" =>
        LET stats == ret.result.indentationStats
        IN  /\ stats.totalLines = Len(document)
            /\ stats.emptyLines = Cardinality({i \in LineNumbers : ~NonBlank(i)})
            /\ stats.tabIndentedLines =
                   Cardinality({i \in LineNumbers :
                                    NonBlank(i) /\ Includes(LeadingOf(i), TAB)})
            /\ stats.mixedIndentationLines =
                   Cardinality({i \in LineNumbers :
                                    NonBlank(i) /\ IsMixed(LeadingOf(i))})
            /\ stats.spaceIndentedLines =
                   Cardinality({i \in LineNumbers : SpaceIndented(i)})
            /\ \A n \in 0..(MaxIndent + Len(stats.spaceFrequency)) :
                   FrequencyIn(stats.spaceFrequency, n) =
                       Cardinality({i \in LineNumbers :
                                        SpaceIndented(i) /\ Len(LeadingOf(i)) = n})
            /\ \A j, k \in 1..Len(stats.spaceFrequency) :
                   stats.spaceFrequency[j].value = stats.spaceFrequency[k].value => j = k
            /\ ret.result.hasTabs <=> (stats.tabIndentedLines > 0)

\* Two lines of the same space width, counted twice under that width.
C10_Witness ==
    /\ ret.op = "analyze"
    /\ Len(document) = 2
    /\ SpaceIndented(0) /\ SpaceIndented(1)
    /\ ret.result.indentationStats.spaceFrequency = <<[value |-> 1, frequency |-> 2]>>
    /\ ~ret.result.hasTabs

(***************************************************************************)
(* The dominant width and the mixed lines of analyze.                      *)
(***************************************************************************)
\* The space-indented lines of width n.
LinesOfWidth(n) == {i \in LineNumbers : SpaceIndented(i) /\ Len(LeadingOf(i)) = n}

SpaceWidths == {Len(LeadingOf(i)) : i \in {j \in LineNumbers : SpaceIndented(j)}}

FirstLineOfWidth(n) == CHOOSE i \in LinesOfWidth(n) : \A j \in LinesOfWidth(n) : i <= j

\* C11: dominantSpaceLevel is null exactly when no line is space-indented;
\* otherwise it is a width of the greatest number of space-indented lines,
\* and among the widths of that number the one whose first line is earliest.
C11_DominantWidth ==
    ret.op = "analyze" =>
        LET d == ret.result.dominantSpaceLevel
        IN  IF SpaceWidths = {} THEN d = Null
            ELSE /\ d \in SpaceWidths
                 /\ \A n \in SpaceWidths :
                        /\ Cardinality(LinesOfWidth(n)) <= Cardinality(LinesOfWidth(d))
                        /\ (n # d /\ Cardinality(LinesOfWidth(n)) =
                                         Cardinality(LinesOfWidth(d)))
                               => FirstLineOfWidth(d) < FirstLineOfWidth(n)

\* A line of width 2 before a line of width 1: the tie goes to width 2.
C11_Witness ==
    /\ ret.op = "analyze"
    /\ document = <<<<SP, SP, "a">>, <<SP, "a">>>>
    /\ ret.result.dominantSpaceLevel = 2

\* C12: the mixed-line list of analyze holds exactly the numbers of the
\* non-blank lines led by both a tab and a space, in strictly ascending order.
C12_MixedLines ==
    ret.op = "analyze" =>
        LET mixedLines == ret.result.mixedIndentationLines
        IN  /\ {mixedLines[k] : k \in 1..Len(mixedLines)} =
                   {i \in LineNumbers : NonBlank(i) /\ IsMixed(LeadingOf(i))}
            /\ \A j, k \in 1..Len(mixedLines) : j < k => mixedLines[j] < mixedLines[k]

\* Two mixed lines, listed in document order.
C12_Witness ==
    /\ ret.op = "analyze"
    /\ document = <<<<SP, TAB, "a">>, <<TAB, SP, "a">>>>
    /\ ret.result.mixedIndentationLines = <<0, 1>>

(***************************************************************************)
(* Conversion and classification of a line led by a tab and two spaces.    *)
(***************************************************************************)
TabTwoSpaces == <<TAB, SP, SP>>

\* The lines analyze lists as mixed in doc.
MixedIn(doc) ==
    LET mixedLines == analyze(doc).mixedIndentationLines
    IN  {mixedLines[k] : k \in 1..Len(mixedLines)}

\* The document once the edits convert returned are applied.
AfterConvert == applyEdit(document, ret.result.edits)

\* C17 as stated: a non-blank line led by a tab and two spaces is mixed
\* before convert with tab width 4 and not mixed after it.
C17_CeasesToBeMixed ==
    (Converted /\ tabSize = 4) =>
        \A i \in LineNumbers :
            (NonBlank(i) /\ LeadingOf(i) = TabTwoSpaces) =>
                /\ i \in MixedIn(document)
                /\ i \notin MixedIn(AfterConvert)

\* C17 amended: a non-blank line led by a tab and two spaces is mixed
\* before convert with tab width 4; convert leaves its leading whitespace
\* as it is, and the line is still mixed after it.
C17_StaysMixed ==
    (Converted /\ tabSize = 4) =>
        \A i \in LineNumbers :
            (NonBlank(i) /\ LeadingOf(i) = TabTwoSpaces) =>
                /\ i \in MixedIn(document)
                /\ extractLeadingWhitespace(AfterConvert[i + 1]) = TabTwoSpaces
                /\ i \in MixedIn(AfterConvert)

\* convert with tab width 4 has run on a line led by a tab and two spaces.
C17_Witness ==
    /\ Converted /\ tabSize = 4
    /\ document = <<<<TAB, SP, SP, "a", SP, SP, "a">>>>
    /\ options.onlyLeadingSpaces
    /\ ret.result.edits = <<>>
    /\ MixedIn(AfterConvert) = {0}

\* C18: with preserveIndentationInEmptyLines set, convert returns no edit
\* for an empty or whitespace-only line.
C18_BlankLinesPreserved ==
    (Converted /\ options.preserveIndentationInEmptyLines) =>
        \A i \in LineNumbers : ~NonBlank(i) => ~HasEdit(ret.result.edits, i)

\* C20: the tab-indented, space-indented and empty lines are together at
\* most the lines of the document, and the lines they leave out are the
\* non-blank lines without leading whitespace.
C20_CountsWithinTotal ==
    ret.op = "analyze" =>
        LET stats == ret.result.indentationStats
            classified == stats.tabIndentedLines + stats.spaceIndentedLines
                              + stats.emptyLines
        IN  /\ classified <= stats.totalLines
            /\ stats.totalLines - classified =
                   Cardinality({i \in LineNumbers :
                                    NonBlank(i) /\ Len(LeadingOf(i)) = 0})

\* An unindented line, a blank line of two spaces: one line is left out.
C20_Witness ==
    /\ ret.op = "analyze"
    /\ document = <<<<"a">>, <<SP, SP>>>>
    /\ ret.result.indentationStats.emptyLines = 1
    /\ ret.result.indentationStats.spaceIndentedLines = 0
    /\ ret.result.indentationStats.totalLines = 2

(***************************************************************************)
(* Properties of IndentationFixer (SpecFixer).  When ret.op is             *)
(* "fixSingleFile", ret.result is what the call returned, ret.before the   *)
(* text of the file when it was called, ret.calls the steps it entered and *)
(* ret.raised the step that threw ret.message, or "none".                  *)
(***************************************************************************)
Fixed == ret.op = "fixSingleFile"

\* C13: when the analysis of the file reports no space-indented and no
\* mixed line, fixSingleFile returns success with both counters 0, goes no
\* further than the analysis (no conversion, no applyEdit, no save) and
\* leaves the text of the file as it was.
C13_FastPath ==
    (/\ Fixed
     /\ ret.raised \notin {"openTextDocument", "analyze"}
     /\ analyze(ret.before).indentationStats.spaceIndentedLines = 0
     /\ analyze(ret.before).indentationStats.mixedIndentationLines = 0)
        => /\ ret.result.success
           /\ ret.result.linesChanged = 0
           /\ ret.result.spacesReplaced = 0
           /\ ret.calls = <<"openTextDocument", "analyze">>
           /\ workspace[ret.result.filePath] = ret.before

\* A file whose only line is two spaces, fixed with tab size 2.
C13_Witness ==
    /\ Fixed /\ tabSize = 2
    /\ ret.before = <<<<SP, SP>>>>
    /\ ret.result.success
    /\ ret.calls = <<"openTextDocument", "analyze">>

\* C14: whichever step throws, fixSingleFile returns a result with success
\* false, an error holding the message thrown, and both counters 0.
C14_FailureReported ==
    (Fixed /\ ret.raised # "none") =>
        /\ ~ret.result.success
        /\ \E k \in 1..Len(ret.result.error) : ret.result.error[k] = ret.message
        /\ ret.result.linesChanged = 0
        /\ ret.result.spacesReplaced = 0

\* save threw after the edits were applied.
C14_Witness ==
    /\ Fixed
    /\ ret.raised = "save"
    /\ ret.message = "EACCES"
    /\ ret.result.error = <<"EACCES">>
    /\ ~ret.result.success

\* The results among the first n of which the file failed, as file paths.
RECURSIVE FailedAmong(_, _, _)
FailedAmong(filePaths, results, n) ==
    IF n = 0 THEN <<>>
    ELSE IF results[n].success THEN FailedAmong(filePaths, results, n - 1)
    ELSE Append(FailedAmong(filePaths, results, n - 1), filePaths[n])

\* The summary holds one result for each of the first n file paths, in
\* their order, and failedFiles the paths among them that failed.
ResultsFor(filePaths, summary, n) ==
    /\ Len(summary.results) = n
    /\ \A k \in 1..n : summary.results[k].filePath = filePaths[k]
    /\ summary.failedFiles = FailedAmong(filePaths, summary.results, n)

OneByOne ==
    /\ batch.running => ResultsFor(batch.filePaths, batch.summary, batch.done)
    /\ ret.op = "fixAllFiles" =>
           ResultsFor(ret.filePaths, ret.summary, Len(ret.filePaths))

\* C15: fixAllFiles takes the file paths one at a time in their order,
\* keeps one result for each whether or not it failed, lists in failedFiles
\* the paths whose result is a failure, and in the end returns the summary.
C15_BatchCompletes ==
    /\ []OneByOne
    /\ batch.running ~> (ret.op = "fixAllFiles")

\* A summary of two files: the first failed, the second was fixed.
C15_Witness ==
    /\ ret.op = "fixAllFiles"
    /\ Len(ret.filePaths) = 2
    /\ ~ret.summary.results[1].success
    /\ ret.summary.results[2].success
    /\ ret.summary.results[2].linesChanged > 0
    /\ ret.summary.failedFiles = <<ret.filePaths[1]>>

\* The sum of a counter over the successful results among the first n.
RECURSIVE SumOfSuccessful(_, _, _)
SumOfSuccessful(results, counter, n) ==
    IF n = 0 THEN 0
    ELSE SumOfSuccessful(results, counter, n - 1)
             + (IF results[n].success THEN results[n][counter] ELSE 0)

\* C16: in the summary fixAllFiles returns, totalFiles is the number of
\* file paths, the two totals are the sums of the counters of the
\* successful results, totalFilesFixed counts the successful results that
\* changed a line, and the fixed and the failed files are at most all.
C16_Totals ==
    ret.op = "fixAllFiles" =>
        LET summary == ret.summary
            n == Len(summary.results)
        IN  /\ summary.totalFiles = Len(ret.filePaths)
            /\ summary.totalLinesChanged =
                   SumOfSuccessful(summary.results, "linesChanged", n)
            /\ summary.totalSpacesReplaced =
                   SumOfSuccessful(summary.results, "spacesReplaced", n)
            /\ summary.totalFilesFixed =
                   Cardinality({k \in 1..n : summary.results[k].success
                                                /\ summary.results[k].linesChanged > 0})
            /\ summary.totalFilesFixed + Len(summary.failedFiles) <= summary.totalFiles

\* A summary of two files: one fixed, one that needed no change.
C16_Witness ==
    /\ ret.op = "fixAllFiles"
    /\ Len(ret.filePaths) = 2
    /\ ret.summary.totalFilesFixed = 1
    /\ ret.summary.failedFiles = <<>>
    /\ ret.summary.totalSpacesReplaced = 2

\* C19: when fixSingleFile returns success false, the text of the file is
\* what it was before the call.
C19_DocumentMaintained ==
    (Fixed /\ ~ret.result.success) =>
        workspace[ret.result.filePath] = ret.before

(***************************************************************************)
(* The edit list of convert, its counters and the width of the leading     *)
(* whitespace (Spec).                                                      *)
(***************************************************************************)
\* C21: every edit convert returns changes the text of its line, and the
\* edits are in strictly ascending line order, so no line has two edits.
C21_EditList ==
    Converted =>
        LET edits == ret.result.edits
        IN  /\ \A k \in 1..Len(edits) :
                   /\ edits[k].line \in LineNumbers
                   /\ edits[k].newText # document[edits[k].line + 1]
            /\ \A j, k \in 1..Len(edits) : j < k => edits[j].line < edits[k].line

\* Two lines of two spaces at tab size 2: an edit for line 0, then line 1.
C21_Witness ==
    /\ Converted /\ tabSize = 2
    /\ document = <<<<SP, SP, "a">>, <<SP, SP, "a">>>>
    /\ Len(ret.result.edits) = 2
    /\ ret.result.edits[1].line = 0
    /\ ret.result.edits[2].line = 1

\* The spaces edit k takes out of the leading whitespace of its line.
SpacesOut(edits, k) ==
    NumberOf(LeadingOf(edits[k].line), SP)
        - NumberOf(extractLeadingWhitespace(edits[k].newText), SP)

\* C25: no edit of convert puts more spaces into the leading whitespace
\* than it had, so neither the amount of an edit nor spacesReplaced is
\* negative; with onlyLeadingSpaces the amount of an edit is a multiple of
\* the tab size.
C25_SpacesNeverAdded ==
    Converted =>
        LET edits == ret.result.edits
        IN  /\ \A k \in 1..Len(edits) :
                   /\ SpacesOut(edits, k) >= 0
                   /\ options.onlyLeadingSpaces => SpacesOut(edits, k) % tabSize = 0
            /\ ret.result.spacesReplaced >= 0

\* Three spaces behind a tab at tab size 2: two of the spaces are replaced.
C25_Witness ==
    /\ Converted /\ tabSize = 2 /\ options.onlyLeadingSpaces
    /\ document = <<<<TAB, SP, SP, SP, "a", SP, SP, "a">>>>
    /\ Len(ret.result.edits) = 1
    /\ ret.result.spacesReplaced = 2

\* The width of leading whitespace when a tab counts as tabSize columns.
ExpandedWidth(lead) == NumberOf(lead, SP) + tabSize * NumberOf(lead, TAB)

C29_MixedCounts ==
    ret.op = "analyze" =>
        /\ ret.result.indentationStats.mixedIndentationLines =
               Len(ret.result.mixedIndentationLines)
        /\ ret.result.indentationStats.mixedIndentationLines <=
               ret.result.indentationStats.tabIndentedLines

\* A mixed line and a line led by a tab only: one of two is mixed.
C29_Witness ==
    /\ ret.op = "analyze"
    /\ document = <<<<TAB, SP, "a">>, <<TAB, "a">>>>
    /\ ret.result.mixedIndentationLines = <<0>>
    /\ ret.result.indentationStats.mixedIndentationLines = 1
    /\ ret.result.indentationStats.tabIndentedLines = 2


(***************************************************************************)
(* The configuration and the conversion command (SpecService).             *)
(***************************************************************************)
\* C22: when includeLanguagesOnly is not empty, shouldProcessFile accepts
\* the languages it lists, excluded or not, and rejects all others.
C22_IncludeOverridesExclude ==
    (ret.op = "shouldProcessFile" /\ config.includeLanguagesOnly # <<>>) =>
        (ret.result <=> Includes(config.includeLanguagesOnly, ret.languageId))

\* C23: every cached value is the configured value when one is set and the
\* documented default otherwise; with respectVSCodeSettings configured
\* false, getEffectiveTabSize gives the configured tabber.tabSize.
C23_CacheMatchesConfiguration ==
    /\ \A key \in TabberKeys : config[key] = Get(settings.tabber, key)
    /\ settings.tabber.respectVSCodeSettings = <<FALSE>> =>
           \A languageId \in Languages :
               getEffectiveTabSize(config, settings, languageId)
                   = Get(settings.tabber, "tabSize")

\* The spaces the edits from k on remove from the lines of before.
RECURSIVE SpacesRemovedFrom(_, _, _)
SpacesRemovedFrom(before, edits, k) ==
    IF k > Len(edits) THEN 0
    ELSE countSpaces(before[edits[k].line + 1]) - countSpaces(edits[k].newText)
             + SpacesRemovedFrom(before, edits, k + 1)

\* C24: after convertSpacesToTabs applied its edits, the notification gives
\* the number of edits as converted lines and, as replaced spaces, the
\* spaces the edits removed from the text the lines had before.
C24_NotificationCounts ==
    (ret.op = "convertSpacesToTabs" /\ ret.notification.message = "Converted") =>
        /\ ret.notification.lines = Len(ret.edits)
        /\ ret.notification.spaces = SpacesRemovedFrom(ret.before, ret.edits, 1)



(***************************************************************************)
(* The command-line script and the converter (Spec).                       *)
(***************************************************************************)
\* C30: for every non-blank line and tab size, the script's fixSingleFile
\* rewrites the line to the text convert with onlyLeadingSpaces leaves.
C30_ScriptAgrees ==
    (Converted /\ options.onlyLeadingSpaces) =>
        \A i \in LineNumbers :
            NonBlank(i) => newLines(document[i + 1], tabSize) = LineAfter(ret.result.edits, i)

(***************************************************************************)
(* The fast path and the applied edit of fixSingleFile (SpecFixer).        *)
(***************************************************************************)
\* fixSingleFile returned from its fast path: after analyze, without convert.
TookFastPath ==
    /\ Fixed
    /\ ret.calls = <<"openTextDocument", "analyze">>
    /\ ret.raised = "none"

\* C26: on a document fixSingleFile leaves on its fast path, convert with
\* the same tab size and the default options returns no edit, so both give
\* the same linesChanged and spacesReplaced.
C26_FastPathAgrees ==
    TookFastPath =>
        LET result == convert(ret.before, tabSize, DefaultOptions)
        IN  /\ result.edits = <<>>
            /\ ret.result.linesChanged = result.linesChanged
            /\ ret.result.spacesReplaced = result.spacesReplaced

\* The lines of the file of the last call that differ from what they were.
LinesRewritten ==
    {i \in 1..Len(ret.before) : workspace[ret.result.filePath][i] # ret.before[i]}

\* C27: when fixSingleFile returns success with linesChanged = n > 0, the
\* edit was applied and exactly n lines of the document were rewritten.
C27_SuccessMeansApplied ==
    (Fixed /\ ret.result.success /\ ret.result.linesChanged > 0) =>
        /\ ret.applyEdit = "applied"
        /\ Cardinality(LinesRewritten) = ret.result.linesChanged


====
